---- MODULE Spec2Model ----
(***************************************************************************)
(* Research-Assistant: document ingestion and retrieval pipeline.          *)
(*                                                                         *)
(* Strings are sequences of one-character strings.  Python's None and 0    *)
(* are both falsy under `x or default`, so an absent integer argument is   *)
(* written 0.                                                              *)
(***************************************************************************)
EXTENDS Integers, Sequences, FiniteSets, TLC

VARIABLES
  text,        \* chunk_text: the text argument
  chunk_size,  \* chunk_text: the chunk_size argument (0 = not given)
  overlap,     \* chunk_text: the overlap argument (0 = not given)
  chunks,      \* chunk_text: the returned list
  ck_pc,       \* "ready" before the call, "done" after it returned
  store,       \* the vector store: collection name -> collection
  llm,         \* the LLMManager of the agent: provider, model, credential
  call,        \* the call in progress at the agent's boundary, or idle
  session      \* st.session_state of the UI: analysis_results, collection_name

chunkVars == <<text, chunk_size, overlap, chunks, ck_pc>>
systemVars == <<store, llm, call, session>>
vars ==
  <<text, chunk_size, overlap, chunks, ck_pc, store, llm, call, session>>

(***************************************************************************)
(* Bounds of the model.                                                    *)
(***************************************************************************)
MaxTextLen == 5
MaxChunkSize == 4
MaxOverlap == 1
MaxResults == 2       \* n_results ranges over 1..MaxResults
MaxDist == 2          \* distances range over 0..MaxDist
MaxLLMFailures == 2   \* provider errors injected into one analysis
MaxPaperResults == 6  \* max_results ranges over 3..MaxPaperResults
MaxPages == 4         \* pages of a PDF file read by extract_text_from_pdf
MaxTokens == 5        \* tokens of a text given to extract_key_terms

(***************************************************************************)
(* config.py                                                               *)
(***************************************************************************)
CHUNK_SIZE == 1000
CHUNK_OVERLAP == 200

(***************************************************************************)
(* Characters and elementary string functions.                             *)
(***************************************************************************)
Alphabet == {"a", ".", " "}

IsSpace(c) == c \in {" ", "\n"}
IsPunct(c) == c \in {".", "!", "?"}

Min(a, b) == IF a < b THEN a ELSE b

MinOf(S) == CHOOSE x \in S : \A y \in S : x <= y
MaxOf(S) == CHOOSE x \in S : \A y \in S : x >= y

\* str.strip(): drop leading and trailing whitespace
Strip(s) ==
  LET keep == {i \in 1..Len(s) : ~IsSpace(s[i])}
  IN IF keep = {} THEN <<>> ELSE SubSeq(s, MinOf(keep), MaxOf(keep))

\* the positions where a match of (?<=[.!?])\s+ starts: a whitespace
\* character directly after '.', '!' or '?'
SeparatorStarts(t) ==
  {i \in 2..Len(t) : IsSpace(t[i]) /\ IsPunct(t[i - 1])}

\* \s+ is greedy: the last position of the whitespace run starting at i
SpaceRunEnd(t, i) ==
  MinOf({j \in i..Len(t) : j = Len(t) \/ ~IsSpace(t[j + 1])})

\* re.split(r'(?<=[.!?])\s+', text): the pieces between the separators, an
\* empty last piece included
RECURSIVE SplitFrom(_, _)
SplitFrom(t, start) ==
  LET seps == {i \in SeparatorStarts(t) : i >= start}
  IN IF seps = {} THEN <<SubSeq(t, start, Len(t))>>
     ELSE <<SubSeq(t, start, MinOf(seps) - 1)>>
            \o SplitFrom(t, SpaceRunEnd(t, MinOf(seps)) + 1)

SplitSentences(t) == SplitFrom(t, 1)

(***************************************************************************)
(* DocumentProcessor.chunk_text                                            *)
(***************************************************************************)
\* the test of line 44 with the buffer's length forgotten
ChunkFitsNoBuffer(current, sentence, size) == Len(sentence) < size

\* line 44: the sentence still fits the running buffer
ChunkFits(current, sentence, size) == Len(current) + Len(sentence) < size

\* line 49 with the old buffer kept
StartChunkKeep(current, sentence) == current \o sentence \o <<" ">>

\* line 49: a new buffer starts with the overflowing sentence
StartChunk(current, sentence) == sentence \o <<" ">>

\* lines 43-49: the loop over the sentences, from sentence i on
RECURSIVE ChunkLoop(_, _, _, _, _)
ChunkLoop(sentences, i, size, acc, current) ==
  IF i > Len(sentences)
  THEN \* lines 51-52
       IF current # <<>> THEN Append(acc, Strip(current)) ELSE acc
  ELSE LET sentence == sentences[i] IN
       IF ChunkFits(current, sentence, size)
       THEN ChunkLoop(sentences, i + 1, size, acc,
                      current \o sentence \o <<" ">>)
       ELSE ChunkLoop(sentences, i + 1, size,
                      IF current # <<>> THEN Append(acc, Strip(current))
                                        ELSE acc,
                      StartChunk(current, sentence))

chunk_text(t, csize, ovl) ==
  LET size == IF csize = 0 THEN CHUNK_SIZE ELSE csize
      ov   == IF ovl = 0 THEN CHUNK_OVERLAP ELSE ovl   \* assigned, never read
  IN ChunkLoop(SplitSentences(t), 1, size, <<>>, <<>>)

(***************************************************************************)
(* Specification of the chunker: any text, chunk_size and overlap within   *)
(* the bounds, then one call of chunk_text.                                *)
(***************************************************************************)
Texts == UNION {[1..n -> Alphabet] : n \in 0..MaxTextLen}

IdleChunk ==
  /\ text = <<>> /\ chunk_size = 0 /\ overlap = 0
  /\ chunks = <<>> /\ ck_pc = "off"

\* main.py initialize_session_state: None is <<>>, a value v is <<v>>
NoSession == [analysis_results |-> <<>>, collection_name |-> ""]

IdleSystem ==
  /\ store = <<>>
  /\ llm = [provider |-> "together", model |-> "", has_key |-> FALSE]
  /\ call = [op |-> "idle"]
  /\ session = NoSession

InitChunk ==
  /\ IdleSystem
  /\ text \in Texts
  /\ chunk_size \in 0..MaxChunkSize
  /\ overlap \in 0..MaxOverlap
  /\ chunks = <<>>
  /\ ck_pc = "ready"

ChunkText ==
  /\ ck_pc = "ready"
  /\ chunks' = chunk_text(text, chunk_size, overlap)
  /\ ck_pc' = "done"
  /\ UNCHANGED <<text, chunk_size, overlap>>
  /\ UNCHANGED systemVars

NextChunk == ChunkText

SpecChunk == InitChunk /\ [][NextChunk]_vars

\* C1: for every non-empty text and positive chunk_size, no chunk returned
\* by chunk_text is the empty string.
C1_NoEmptyChunk ==
  (ck_pc = "done" /\ text # <<>> /\ chunk_size > 0)
    => \A k \in 1..Len(chunks) : chunks[k] # <<>>

\* C2: every chunk has at most chunk_size characters, except a chunk that is
\* one whole sentence which is itself longer than chunk_size.
C2_SizeBound ==
  (ck_pc = "done" /\ chunk_size > 0)
    => \A k \in 1..Len(chunks) :
         \/ Len(chunks[k]) <= chunk_size
         \/ \E j \in 1..Len(SplitSentences(text)) :
              /\ Len(SplitSentences(text)[j]) > chunk_size
              /\ chunks[k] = Strip(SplitSentences(text)[j])

C2_Witness ==
  /\ ck_pc = "done" /\ chunk_size > 0
  /\ Len(chunks) >= 2
  /\ \E k \in 1..Len(chunks) : Len(chunks[k]) > chunk_size
  /\ \E k \in 1..Len(chunks) :
       Len(chunks[k]) <= chunk_size /\ Len(chunks[k]) > 0

\* the sentences a..b of ss, each followed by the separator chunk_text inserts
RECURSIVE JoinSentences(_, _, _)
JoinSentences(ss, a, b) ==
  IF a > b THEN <<>> ELSE ss[a] \o <<" ">> \o JoinSentences(ss, a + 1, b)

\* cs is ss cut into consecutive non-empty groups, one group per chunk, each
\* chunk being its group's sentences (trimmed at both ends)
IsOrderedPartition(cs, ss) ==
  \E cut \in [0..Len(cs) -> 0..Len(ss)] :
    /\ cut[0] = 0
    /\ cut[Len(cs)] = Len(ss)
    /\ \A k \in 1..Len(cs) :
         /\ cut[k - 1] < cut[k]
         /\ cs[k] = Strip(JoinSentences(ss, cut[k - 1] + 1, cut[k]))

\* C3: read in order, the chunks hold every sentence of the text exactly
\* once and in the original order, whatever the overlap argument is.
C3_SentencesOnceInOrder ==
  ck_pc = "done" => IsOrderedPartition(chunks, SplitSentences(text))

C3_Witness ==
  /\ ck_pc = "done" /\ overlap > 0 /\ chunk_size > 0
  /\ Len(SplitSentences(text)) >= 3
  /\ \A j \in 1..Len(SplitSentences(text)) : SplitSentences(text)[j] # <<>>
  /\ Len(chunks) >= 2
  /\ Len(chunks) < Len(SplitSentences(text))

(***************************************************************************)
(* The PDF files the model ingests.  A file either cannot be opened or is  *)
(* a sequence of pages; reading a page yields its text or raises.          *)
(***************************************************************************)
Rep(c, n) == [i \in 1..n |-> c]

ShortPdf  == "/tmp/short.pdf"
LongPdf   == "/tmp/long.pdf"
BrokenPdf == "/tmp/broken.pdf"
PdfPool == {ShortPdf, LongPdf, BrokenPdf}

Methods == <<"m", "e", "t", "h", "o", "d", "s", " ">>
Results == <<"r", "e", "s", "u", "l", "t", "s", " ">>

PdfFile(path) ==
  CASE path = ShortPdf ->
         [opens |-> TRUE,
          pages |-> << [ok |-> TRUE, text |-> <<"a", ".">>] >>]
    [] path = LongPdf ->
         [opens |-> TRUE,
          pages |-> << [ok |-> TRUE,
                        text |-> Methods \o Rep("a", 588)
                                   \o <<"[", "1", "]", ".">>],
                       [ok |-> TRUE,
                        text |-> Results \o Rep("a", 591) \o <<"!">>] >>]
    [] OTHER ->
         [opens |-> FALSE, pages |-> <<>>]

(***************************************************************************)
(* DocumentProcessor.extract_text_from_pdf                                 *)
(***************************************************************************)
\* lines 27-28: the text of the pages up to the first page that raises
RECURSIVE ReadPages(_, _, _)
ReadPages(pages, i, acc) ==
  IF i > Len(pages) \/ ~pages[i].ok THEN acc
  ELSE ReadPages(pages, i + 1, acc \o pages[i].text \o <<"\n">>)

\* lines 23-31 on an opened-or-not file: text starts empty, every exception
\* is caught and text is returned as it stands
TextOfFile(file) ==
  IF ~file.opens THEN <<>> ELSE ReadPages(file.pages, 1, <<>>)

extract_text_from_pdf(path) == TextOfFile(PdfFile(path))

\* whether open() or a page's extract_text() raises while the file is read
ReadError(file) ==
  ~file.opens \/ \E i \in 1..Len(file.pages) : ~file.pages[i].ok

\* the text of each file
PaperText == [p \in PdfPool |-> extract_text_from_pdf(p)]

\* store_document line 114: the chunks of a file's text, default sizes
DocumentChunks == [p \in PdfPool |-> chunk_text(PaperText[p], 0, 0)]

\* DocumentProcessor.extract_citations.  Of the five patterns only
\* r'\[(\d+)\]' can match a text without '(' and without capital letters,
\* which is every text of the files above: the digit runs between brackets.
DocumentProcessor_extract_citations(t) ==
  {SubSeq(t, i + 1, j - 1) :
     <<i, j>> \in {ij \in (1..Len(t)) \X (1..Len(t)) :
                     /\ t[ij[1]] = "[" /\ t[ij[2]] = "]"
                     /\ ij[1] + 1 < ij[2]
                     /\ \A k \in (ij[1] + 1)..(ij[2] - 1) :
                          t[k] \in {"0", "1", "2", "3", "4",
                                    "5", "6", "7", "8", "9"}}}

HeuristicCitations ==
  [p \in PdfPool |-> DocumentProcessor_extract_citations(PaperText[p])]

\* re.search(r'(?i)(?:<heading>)\s*(.{500,2000})', text, re.DOTALL), the
\* search extract_methodology and extract_results fall back on: a heading
\* with at least 500 characters behind it.  In the files above the section
\* patterns of extract_sections find text only where this one does.
HeadingWithText(t, headings) ==
  \E h \in headings :
    \E i \in 1..Len(t) :
      /\ i + Len(h) - 1 + 500 <= Len(t)
      /\ SubSeq(t, i, i + Len(h) - 1) = h

MethodHeadings ==
  {<<"m", "e", "t", "h", "o", "d">>, <<"a", "p", "p", "r", "o", "a", "c", "h">>}
ResultHeadings ==
  {<<"r", "e", "s", "u", "l", "t", "s">>,
   <<"f", "i", "n", "d", "i", "n", "g", "s">>}

\* whether extract_methodology / extract_results find section text
SectionTextFound ==
  [p \in PdfPool |->
     [methodology |-> HeadingWithText(PaperText[p], MethodHeadings),
      results |-> HeadingWithText(PaperText[p], ResultHeadings)]]

(***************************************************************************)
(* The vector store.  A collection is its source label and the documents   *)
(* added so far; the name is uuid4().hex[:8] behind "doc_", drawn here     *)
(* from a pool so that two draws can collide.                              *)
(***************************************************************************)
NamePool == {"doc_1a2b3c4d", "doc_5e6f7a8b"}
NoName == ""     \* collection_name=None (or ''): falsy at line 143

Collections == DOMAIN store

\* lines 125-137: the entry added for chunk number i (counted from 0)
ChunkEntry(name, path, i, chunk) ==
  [id |-> <<name, i>>, document |-> chunk,
   metadata |-> [chunk_id |-> i, source |-> path]]

\* DocumentProcessor.store_document on store st.  name is the generated
\* collection name; createFails: create_collection raises for a backend
\* reason; addFailAt = j > 0: the j-th collection.add raises (embedding or
\* storage failure), 0: none does.  create_collection also raises when the
\* name exists.  Yields whether the call raised and the store it leaves.
store_document(st, path, name, createFails, addFailAt) ==
  LET cks == DocumentChunks[path]
      stored == IF addFailAt = 0 THEN Len(cks) ELSE addFailAt - 1
      coll == [source |-> path,
               docs |-> [i \in 1..stored |->
                           ChunkEntry(name, path, i - 1, cks[i])]]
  IN IF name \in DOMAIN st
     THEN [raised |-> TRUE, error |-> "Collection already exists",
           store |-> st]
     ELSE IF createFails
     THEN [raised |-> TRUE, error |-> "create_collection failed",
           store |-> st]
     ELSE IF addFailAt # 0
     THEN [raised |-> TRUE, error |-> "collection.add failed",
           store |-> st @@ (name :> coll)]
     ELSE [raised |-> FALSE, error |-> "",
           store |-> st @@ (name :> coll),
           value |-> [collection_name |-> name,
                      sections |-> <<"sections of", path>>]]

(***************************************************************************)
(* DocumentProcessor.search_documents                                      *)
(***************************************************************************)
\* a distance is <<d>>, a missing one (None) is <<>>
SortKey(r) == IF r.distance = <<>> THEN 0 ELSE r.distance[1]

\* r placed behind every entry of the sorted list whose key is <= its own
RECURSIVE InsertByKey(_, _)
InsertByKey(sorted, r) ==
  IF sorted = <<>> THEN <<r>>
  ELSE IF SortKey(Head(sorted)) <= SortKey(r)
       THEN <<Head(sorted)>> \o InsertByKey(Tail(sorted), r)
       ELSE <<r>> \o sorted

\* sorted(results, key=lambda x: x['distance'] or 0): stable, ascending
RECURSIVE SortedByDistance(_)
SortedByDistance(rs) ==
  IF rs = <<>> THEN <<>>
  ELSE InsertByKey(SortedByDistance(SubSeq(rs, 1, Len(rs) - 1)), rs[Len(rs)])

Take(sq, n) == SubSeq(sq, 1, Min(n, Len(sq)))

\* the most documents one collection can hold
MaxDocs == MaxOf({Len(DocumentChunks[p]) : p \in PdfPool})

\* what collection.query can do: raise, answer without a 'distances' key,
\* or answer with the distance of every document to the query
QueryOutcomes ==
  {[kind |-> "error"], [kind |-> "nodist"]}
    \cup {[kind |-> "dist", d |-> f] : f \in [1..MaxDocs -> 0..MaxDist]}

\* the entries of one collection, appended although its query raised
CollectionHitsIgnoreError(st, name, outcome, n) ==
  LET docs == st[name].docs
  IN Take([i \in 1..Len(docs) |->
             [content |-> docs[i].document,
              metadata |-> docs[i].metadata,
              distance |-> IF outcome.kind = "dist"
                           THEN <<outcome.d[i]>> ELSE <<>>,
              collection |-> name]], n)

\* lines 150-163: the entries appended for one collection's answer, the
\* n nearest documents in the order the store returns them; none when the
\* query raises
CollectionHits(st, name, outcome, n) ==
  LET docs == st[name].docs
      all == [i \in 1..Len(docs) |->
                [content |-> docs[i].document,
                 metadata |-> docs[i].metadata,
                 distance |-> IF outcome.kind = "dist"
                              THEN <<outcome.d[i]>> ELSE <<>>,
                 collection |-> name]]
  IN IF outcome.kind = "error" THEN <<>>
     ELSE Take(SortedByDistance(all), n)

\* lines 148-163: the merged results over the collections in list order
RECURSIVE MergeHits(_, _, _, _)
MergeHits(st, order, outcomes, n) ==
  IF order = <<>> THEN <<>>
  ELSE CollectionHits(st, Head(order), outcomes[Head(order)], n)
         \o MergeHits(st, Tail(order), outcomes, n)

\* line 165 with the cap taken before the sort
RankAndCapEarly(results, n) == SortedByDistance(Take(results, n))

\* line 165
RankAndCap(results, n) == Take(SortedByDistance(results), n)

\* lines 143-146 with the collection name ignored
SearchTargetsAll(st, cname) == DOMAIN st

\* lines 143-146: the collections searched
SearchTargets(st, cname) == IF cname # NoName THEN {cname} ELSE DOMAIN st

\* the orders in which a set of collections can be listed
Orderings(S) ==
  {sq \in [1..Cardinality(S) -> S] :
     \A i, j \in 1..Cardinality(S) : i # j => sq[i] # sq[j]}

\* the whole call; get_collection raises for a name that does not exist
search_documents(st, cname, n, order, outcomes) ==
  IF cname # NoName /\ cname \notin DOMAIN st
  THEN [op |-> "search_documents", collection_name |-> cname,
        n_results |-> n, outcome |-> "raised"]
  ELSE LET merged == MergeHits(st, order, outcomes, n)
       IN [op |-> "search_documents", collection_name |-> cname,
           n_results |-> n, outcome |-> "returned",
           results |-> RankAndCap(merged, n),
           queried |-> order,
           failed |-> {c \in DOMAIN outcomes : outcomes[c].kind = "error"},
           merged |-> merged]

(***************************************************************************)
(* config.py and LLMManager                                                *)
(***************************************************************************)
TOGETHER_MODELS ==
  {"deepseek-ai/DeepSeek-V3", "Meta Llama 3.1 8B Instruct Awq Int4",
   "Mistral (7B) Instruct"}
GROQ_MODELS ==
  {"llama-3.1-8b-instant", "llama-3.3-70b-versatile",
   "deepseek-r1-distill-llama-70b", "mistral-saba-24b"}

\* the catalog key both _call_*_api methods look up when no model was given
DefaultModelKey == "mixtral-8x7b"

Catalog(provider) ==
  IF provider = "together" THEN TOGETHER_MODELS ELSE GROQ_MODELS

\* LLMManager.generate_text -> generate_response -> _call_<provider>_api,
\* given the status of the HTTP response
generate_text(cfg, status) ==
  IF cfg.provider \notin {"together", "groq"}
  THEN [raised |-> TRUE, error |-> "Unsupported provider"]
  ELSE IF ~cfg.has_key
  THEN [raised |-> TRUE, error |-> "API key not found"]
  ELSE IF cfg.model = "" /\ DefaultModelKey \notin Catalog(cfg.provider)
  THEN [raised |-> TRUE, error |-> "KeyError: mixtral-8x7b"]
  ELSE IF status = 200
  THEN [raised |-> FALSE, error |-> ""]
  ELSE [raised |-> TRUE, error |-> "API call failed"]

(***************************************************************************)
(* ResearchAgent                                                           *)
(***************************************************************************)
\* the LLM calls of analyze_paper in the order the dict literal makes them
LLMCalls ==
  <<"summary", "citations", "objective", "introduction", "methodology",
    "results", "research_gap">>

\* the sets of calls that receive a provider error in one analysis
LLMFailureSets ==
  {F \in SUBSET {LLMCalls[i] : i \in 1..Len(LLMCalls)} :
     Cardinality(F) <= MaxLLMFailures}

\* what the LLM answers to the citation prompt: a JSON object, a JSON
\* object wrapped in other text, text with no {...} in it, or braces that
\* json.loads rejects
CitationResponses == {"json", "wrapped", "text", "badjson"}

\* whether the response as a whole is valid JSON
IsValidJson(resp) == resp = "json"
\* line 55: re.search(r'\{.*\}', response, re.DOTALL) finds a span
HasBraces(resp) == resp \in {"json", "wrapped", "badjson"}
\* line 57: json.loads accepts the span from the first { to the last }
SpanParses(resp) == resp \in {"json", "wrapped"}

\* json.loads of the LLM's JSON answer
LLMCitationJson ==
  [in_text_citations |-> {<<"[", "1", "]">>},
   reference_list |-> {<<"S", "m", "i", "t", "h">>},
   citation_count |-> 1]

LLMAnswer(cfg, k, failing) ==
  generate_text(cfg, IF k \in failing THEN 429 ELSE 200)

\* extract_methodology / extract_results return a fixed sentence without
\* calling the LLM when no section text is found
CallIsMade(path, k) ==
  k \in {"methodology", "results"} => SectionTextFound[path][k]

\* lines 52-59 with the span returned unparsed when json.loads rejects it
ResearchAgent_extract_citationsAnySpan(cfg, path, failing, resp) ==
  IF ~LLMAnswer(cfg, "citations", failing).raised /\ HasBraces(resp)
  THEN LLMCitationJson
  ELSE [in_text_citations |-> HeuristicCitations[path],
        reference_list |-> {},
        citation_count |-> Cardinality(HeuristicCitations[path])]

\* ResearchAgent.extract_citations: lines 52-59 swallow every exception
ResearchAgent_extract_citations(cfg, path, failing, resp) ==
  IF /\ ~LLMAnswer(cfg, "citations", failing).raised
     /\ HasBraces(resp) /\ SpanParses(resp)
  THEN LLMCitationJson
  ELSE [in_text_citations |-> HeuristicCitations[path],
        reference_list |-> {},
        citation_count |-> Cardinality(HeuristicCitations[path])]

\* find_similar_papers: every exception becomes the empty list
find_similar_papers(searchFails) ==
  IF searchFails THEN <<>> ELSE <<"similar paper">>

\* the calls whose exception leaves the method that made them
Propagates(cfg, path, k, failing) ==
  /\ k # "citations"
  /\ CallIsMade(path, k)
  /\ LLMAnswer(cfg, k, failing).raised

\* lines 203-225, the body of the try block: raised with the exception's
\* message, or the analysis; the store is left as store_document left it.
\* env is what the environment does during the call: the collection name
\* drawn, whether create_collection or the j-th add raises, the LLM calls
\* answered with a provider error, the kind of answer to the citation
\* prompt, and whether the literature search fails.
AnalyzeBody(st, cfg, path, env) ==
  LET sd == store_document(st, path, env.name, env.createFails,
                           env.addFailAt)
      failing == env.failing
      resp == env.resp
      searchFails == env.searchFails
      bad == {i \in 1..Len(LLMCalls) :
                Propagates(cfg, path, LLMCalls[i], failing)}
      text_of(k) ==
        IF CallIsMade(path, k) THEN "LLM text"
        ELSE "section not clearly identified in the paper."
  IN IF sd.raised
     THEN [raised |-> TRUE, error |-> sd.error, store |-> sd.store,
           made |-> {}]
     ELSE IF bad # {}
     THEN [raised |-> TRUE,
           error |-> LLMAnswer(cfg, LLMCalls[MinOf(bad)], failing).error,
           store |-> sd.store,
           made |-> {LLMCalls[i] : i \in 1..MinOf(bad)}]
     ELSE [raised |-> FALSE, error |-> "", store |-> sd.store,
           made |-> {LLMCalls[i] : i \in 1..Len(LLMCalls)},
           value |->
             [title |-> path,
              summary |-> "LLM text",
              citations |->
                ResearchAgent_extract_citations(cfg, path, failing, resp),
              objective |-> "LLM text",
              introduction |-> "LLM text",
              methodology |-> text_of("methodology"),
              results |-> text_of("results"),
              research_gap |-> "LLM text",
              similar_papers |-> find_similar_papers(searchFails),
              sections |-> sd.value.sections,
              collection_name |-> sd.value.collection_name]]

AnalysisFields ==
  {"title", "summary", "citations", "objective", "introduction",
   "methodology", "results", "research_gap", "similar_papers", "sections",
   "collection_name"}

\* lines 227-228 with the exception raised again
ErrorOutcomeReraise(body) == [outcome |-> "raised"]

\* lines 227-228: except Exception -> the error object
ErrorOutcome(body) ==
  [outcome |-> "returned",
   result |-> [error |-> <<"Error analyzing paper: ", body.error>>]]

\* ResearchAgent.analyze_paper: the record of the call and the store after
analyze_paper(st, cfg, path, env) ==
  LET body == AnalyzeBody(st, cfg, path, env)
      out == IF body.raised THEN ErrorOutcome(body)
             ELSE [outcome |-> "returned", result |-> body.value]
  IN [store |-> body.store,
      call |-> out @@
        [op |-> "analyze_paper", path |-> path,
         \* what happened inside, for the properties below
         resp |-> env.resp,
         store_raised |-> store_document(st, path, env.name,
                                         env.createFails,
                                         env.addFailAt).raised,
         llm_failed |-> {k \in body.made :
                           /\ CallIsMade(path, k)
                           /\ LLMAnswer(cfg, k, env.failing).raised}]]

\* ResearchAgent.query_paper: search_documents is called with its default
\* n_results = 5 and its exception is not caught; with no result the fixed
\* sentence is returned; otherwise the LLM is asked over the first three
\* results and its exception is not caught either.  A Python str value s
\* is written [str |-> s].
query_paper(st, cfg, cname, order, outcomes, status) ==
  LET found == search_documents(st, cname, 5, order, outcomes)
      answer == generate_text(cfg, status)
      head == [op |-> "query_paper", collection_name |-> cname,
               \* what happened inside, for the properties below
               search |-> found]
  IN IF found.outcome = "raised"
     THEN head @@ [outcome |-> "raised", llm_called |-> FALSE,
                   error |-> "Collection does not exist"]
     ELSE IF found.results = <<>>
     THEN head @@ [outcome |-> "returned", llm_called |-> FALSE,
                   result |->
                     [str |-> "No relevant information found in the paper."]]
     ELSE IF answer.raised
     THEN head @@ [outcome |-> "raised", llm_called |-> TRUE,
                   error |-> answer.error]
     ELSE head @@ [outcome |-> "returned", llm_called |-> TRUE,
                   context |-> Take(found.results, 3),
                   result |-> [str |-> "LLM text"]]

(***************************************************************************)
(* The system: an agent built with some LLM configuration over an empty    *)
(* vector store; documents are stored, papers analyzed and the store       *)
(* searched, one call at a time.                                           *)
(***************************************************************************)
LLMConfigs ==
  [provider : {"together", "groq"},
   model : {"", "llama-3.1-8b-instant"},
   has_key : BOOLEAN]

Init ==
  /\ IdleChunk
  /\ store = <<>>
  /\ llm \in LLMConfigs
  /\ call = [op |-> "idle"]
  /\ session = NoSession

StoreDocument ==
  /\ call.op = "idle"
  /\ \E path \in PdfPool, name \in NamePool, createFails \in BOOLEAN :
       \E addFailAt \in 0..Len(DocumentChunks[path]) :
         LET sd == store_document(store, path, name, createFails, addFailAt)
         IN /\ store' = sd.store
            /\ call' = [op |-> "store_document", path |-> path,
                        outcome |-> IF sd.raised THEN "raised"
                                    ELSE "returned"]
  /\ UNCHANGED <<llm, session, chunkVars>>

AnalyzePaper ==
  /\ call.op = "idle"
  /\ \E path \in PdfPool, name \in NamePool, createFails \in BOOLEAN :
       \E addFailAt \in 0..Len(DocumentChunks[path]) :
         \E failing \in LLMFailureSets, resp \in CitationResponses,
            searchFails \in BOOLEAN :
           \* the later stages are not reached when storing raises
           /\ store_document(store, path, name, createFails,
                             addFailAt).raised
                => (failing = {} /\ resp = "json" /\ ~searchFails)
           /\ LET r == analyze_paper(store, llm, path,
                                     [name |-> name,
                                      createFails |-> createFails,
                                      addFailAt |-> addFailAt,
                                      failing |-> failing,
                                      resp |-> resp,
                                      searchFails |-> searchFails])
              IN store' = r.store /\ call' = r.call
  /\ UNCHANGED <<llm, session, chunkVars>>

SearchDocuments ==
  /\ call.op = "idle"
  /\ \E cname \in NamePool \cup {NoName}, n \in 1..MaxResults :
       IF cname # NoName /\ cname \notin Collections
       THEN call' = search_documents(store, cname, n, <<>>, <<>>)
       ELSE \E order \in Orderings(SearchTargets(store, cname)) :
              \E outcomes \in [SearchTargets(store, cname) -> QueryOutcomes] :
                call' = search_documents(store, cname, n, order, outcomes)
  /\ UNCHANGED <<store, llm, session, chunkVars>>

QueryPaper ==
  /\ call.op = "idle"
  /\ \E cname \in NamePool \cup {NoName}, status \in {200, 429} :
       IF cname # NoName /\ cname \notin Collections
       THEN call' = query_paper(store, llm, cname, <<>>, <<>>, 200)
       ELSE \E order \in Orderings(SearchTargets(store, cname)) :
              \E outcomes \in [SearchTargets(store, cname) -> QueryOutcomes] :
                \* the LLM is not reached when nothing was found
                /\ search_documents(store, cname, 5, order,
                                    outcomes).results = <<>>
                     => status = 200
                /\ call' = query_paper(store, llm, cname, order, outcomes,
                                       status)
  /\ UNCHANGED <<store, llm, session, chunkVars>>

\* the caller takes the result; the agent is ready for the next call
Return ==
  /\ call.op # "idle"
  /\ call' = [op |-> "idle"]
  /\ UNCHANGED <<store, llm, session, chunkVars>>

Next ==
  StoreDocument \/ AnalyzePaper \/ SearchDocuments \/ QueryPaper \/ Return

Spec == Init /\ [][Next]_vars

(***************************************************************************)
(* Properties of search_documents                                          *)
(***************************************************************************)
Searched == call.op = "search_documents" /\ call.outcome = "returned"

\* the distance a result is ranked by, a missing one counting as 0
DistanceOrZero(r) == IF r.distance = <<>> THEN 0 ELSE r.distance[1]

\* the injective maps that place every entry of out at an equal entry of m
Placements(out, m) ==
  {f \in [1..Len(out) -> 1..Len(m)] :
     /\ \A i \in 1..Len(out) : m[f[i]] = out[i]
     /\ \A i, j \in 1..Len(out) : i # j => f[i] # f[j]}

\* C4: the output is the first n_results entries of the merged results in
\* ascending order of distance (missing = 0): never more than n_results
\* entries, as many as the merge allows, sorted, all taken from the merge,
\* and nothing left out is nearer than something returned.
C4_TopOfMergedByDistance ==
  Searched =>
    LET out == call.results
        m == call.merged
    IN /\ Len(out) <= call.n_results
       /\ Len(out) = Min(call.n_results, Len(m))
       /\ \A i, j \in 1..Len(out) :
            i < j => DistanceOrZero(out[i]) <= DistanceOrZero(out[j])
       /\ \E f \in Placements(out, m) :
            \A k \in 1..Len(m) :
              (\A i \in 1..Len(out) : f[i] # k)
                => \A i \in 1..Len(out) :
                     DistanceOrZero(out[i]) <= DistanceOrZero(m[k])

C4_Witness ==
  /\ Searched
  /\ call.collection_name = NoName
  /\ Len(call.merged) > call.n_results
  /\ \E i \in 1..Len(call.results) : call.results[i].distance = <<>>
  /\ \E k \in 1..Len(call.merged) : DistanceOrZero(call.merged[k]) > 0
  /\ \E i, j \in 1..Len(call.results) :
       call.results[i].collection # call.results[j].collection

Range(sq) == {sq[i] : i \in 1..Len(sq)}

\* C5: with a collection id, every result is a chunk of that collection and
\* no other collection is queried; without one, every collection of the
\* store is queried.
C5_SearchScope ==
  Searched =>
    IF call.collection_name # NoName
    THEN /\ Range(call.queried) = {call.collection_name}
         /\ \A i \in 1..Len(call.results) :
              /\ call.results[i].collection = call.collection_name
              /\ \E j \in 1..Len(store[call.collection_name].docs) :
                   store[call.collection_name].docs[j].document
                     = call.results[i].content
    ELSE Range(call.queried) = Collections

C5_Witness ==
  /\ Searched
  /\ call.collection_name # NoName
  /\ call.results # <<>>
  /\ \E c \in Collections :
       c # call.collection_name /\ store[c].docs # <<>>

\* C6: in a cross-collection search where a collection's query raises, the
\* search still returns, nothing of the failing collection is in the output,
\* and every other collection's answer takes part in the ranking: each of
\* its hits is returned unless the output is full of results at least as
\* near.
C6_FailureIsolated ==
  (call.op = "search_documents" /\ call.collection_name = NoName)
      => /\ call.outcome = "returned"
         /\ \A i \in 1..Len(call.results) :
              call.results[i].collection \notin call.failed
         /\ \A c \in Collections \ call.failed :
              /\ Cardinality({k \in 1..Len(call.merged) :
                                call.merged[k].collection = c})
                   = Min(call.n_results, Len(store[c].docs))
              /\ \A k \in 1..Len(call.merged) :
                   call.merged[k].collection = c
                     => \/ call.merged[k] \in Range(call.results)
                        \/ /\ Len(call.results) = call.n_results
                           /\ \A i \in 1..Len(call.results) :
                                DistanceOrZero(call.results[i])
                                  <= DistanceOrZero(call.merged[k])

C6_Witness ==
  /\ Searched
  /\ call.collection_name = NoName
  /\ \E c \in call.failed : store[c].docs # <<>>
  /\ call.results # <<>>

(***************************************************************************)
(* Properties of store_document                                            *)
(***************************************************************************)
\* C12: every collection of the store holds exactly as many chunks as
\* chunk_text produces for the full text of its document, under the ids
\* {collection}_0 .. {collection}_(n-1), whatever calls came before, the
\* failing ones included.
C12_CollectionsComplete ==
  \A c \in Collections :
    LET cks == chunk_text(PaperText[store[c].source], 0, 0)
    IN /\ Len(store[c].docs) = Len(cks)
       /\ \A i \in 1..Len(store[c].docs) :
            /\ store[c].docs[i].id = <<c, i - 1>>
            /\ store[c].docs[i].document = cks[i]

(***************************************************************************)
(* Properties of analyze_paper                                             *)
(***************************************************************************)
\* C9: analyze_paper never raises; it returns the analysis or the error
\* object, and the error object alone ({error: message}, no analysis field)
\* whenever storing the document raised or an LLM call's failure left the
\* method that made the call.
C9_AnalyzeNeverRaises ==
  call.op = "analyze_paper" =>
    /\ call.outcome = "returned"
    /\ DOMAIN call.result \in {{"error"}, AnalysisFields}
    /\ (call.store_raised \/ call.llm_failed \ {"citations"} # {})
         => DOMAIN call.result = {"error"}

C9_Witness ==
  /\ call.op = "analyze_paper"
  /\ ~call.store_raised
  /\ "research_gap" \in call.llm_failed
  /\ call.outcome = "returned"
  /\ DOMAIN call.result = {"error"}

\* C10: whenever an LLM call made during analyze_paper fails, the citation
\* categorization call included, the result is the error-tagged outcome.
C10_EveryLLMFailureSurfaces ==
  (call.op = "analyze_paper" /\ call.llm_failed # {})
    => (call.outcome = "returned" /\ DOMAIN call.result = {"error"})

(***************************************************************************)
(* Properties of query_paper                                               *)
(***************************************************************************)
\* the fatal errors of a query: the collection id names no collection, a
\* collection's index query fails, or the LLM call fails
QueryFatal ==
  \/ call.search.outcome = "raised"
  \/ (call.search.outcome = "returned" /\ call.search.failed # {})
  \/ (call.llm_called /\ call.outcome = "raised")

\* C11: a query_paper call that hits a fatal error returns a structured
\* error object: it neither raises nor returns an answer.
C11_QueryErrorIsErrorObject ==
  (call.op = "query_paper" /\ QueryFatal)
    => (call.outcome = "returned" /\ DOMAIN call.result = {"error"})

\* the step is an analyze_paper call that returns the error object, or a
\* store_document call that raises
FailedIngestion ==
  /\ call.op = "idle"
  /\ \/ call'.op = "analyze_paper" /\ DOMAIN call'.result = {"error"}
     \/ call'.op = "store_document" /\ call'.outcome = "raised"

\* C18: a call of analyze_paper that returns the error object, and a call
\* of store_document that raises, leave the vector store as it was before
\* the call: no collection and no chunk is added.
C18_FailedAnalysisLeavesStore == [][FailedIngestion => store' = store]_vars

\* C19: with no explicit model and a credential configured, every
\* generate_text call resolves a default model that is a key of the
\* provider's catalog and goes on to the HTTP request: an LLM call made by
\* analyze_paper or query_paper fails, if at all, with the API's failure.
C19_DefaultModelResolves ==
  (llm.model = "" /\ llm.has_key)
    => /\ (call.op = "query_paper" /\ call.llm_called)
            => (call.outcome = "returned" \/ call.error = "API call failed")
       /\ (call.op = "analyze_paper" /\ ~call.store_raised)
            => \/ DOMAIN call.result = AnalysisFields
               \/ call.result.error[2] = "API call failed"

\* an analysis was returned and the citation prompt got an LLM response
CitationsAnswered ==
  /\ call.op = "analyze_paper"
  /\ DOMAIN call.result = AnalysisFields
  /\ "citations" \notin call.llm_failed

\* the citations field is the fallback built from the heuristic citation
\* set of the paper's text
IsCitationFallback ==
  LET found == HeuristicCitations[call.path]
  IN /\ call.result.citations.in_text_citations = found
     /\ call.result.citations.reference_list = {}
     /\ call.result.citations.citation_count = Cardinality(found)

\* C16 as claimed: whenever the LLM response to the citation prompt is not
\* valid JSON, or contains no JSON object, extract_citations returns the
\* fallback: the heuristic citations, an empty reference list and their
\* count.
C16_InvalidJsonGivesFallback ==
  (CitationsAnswered /\ ~IsValidJson(call.resp)) => IsCitationFallback

\* C16 amended: extract_citations returns the fallback exactly when the LLM
\* call fails, the response holds no {...} span, or json.loads rejects the
\* span from the first { to the last }; a response that wraps a JSON object
\* in other text yields the parsed object.
C16_UnparsedSpanGivesFallback ==
  (call.op = "analyze_paper" /\ DOMAIN call.result = AnalysisFields)
    => IF \/ "citations" \in call.llm_failed
          \/ ~HasBraces(call.resp)
          \/ ~SpanParses(call.resp)
       THEN IsCitationFallback
       ELSE call.result.citations = LLMCitationJson

C16_Witness ==
  /\ CitationsAnswered
  /\ call.resp = "badjson"
  /\ call.result.citations.in_text_citations # {}
  /\ IsCitationFallback

(***************************************************************************)
(* PaperSearcher.  A title is the sequence of its whitespace-separated     *)
(* words; 'published' is a string of characters.                           *)
(***************************************************************************)
Chars(str) ==
  CASE str = "Unknown" -> <<"U", "n", "k", "n", "o", "w", "n">>
    [] str = "None" -> <<"N", "o", "n", "e">>
    [] str = "2021-03-01" ->
         <<"2", "0", "2", "1", "-", "0", "3", "-", "0", "1">>
    [] str = "2019-05-20" ->
         <<"2", "0", "1", "9", "-", "0", "5", "-", "2", "0">>
    [] str = "0" -> <<"0">>

Digits == <<"0", "1", "2", "3", "4", "5", "6", "7", "8", "9">>
DigitValue(c) == (CHOOSE i \in 1..10 : Digits[i] = c) - 1

\* str(n) for a natural number n
RECURSIVE DecimalString(_)
DecimalString(n) ==
  IF n < 10 THEN <<Digits[n + 1]>>
  ELSE Append(DecimalString(n \div 10), Digits[(n % 10) + 1])

\* str(v) for v an optional integer: <<n>> is n, <<>> is None
PyStr(v) == IF v = <<>> THEN Chars("None") ELSE DecimalString(v[1])

\* s.split('-')[0]
FirstDashField(str) ==
  LET dashes == {i \in 1..Len(str) : str[i] = "-"}
  IN IF dashes = {} THEN str ELSE SubSeq(str, 1, MinOf(dashes) - 1)

\* int(s) accepts a string of digits (the model has no signs or blanks)
IsIntLiteral(str) ==
  str # <<>> /\ \A i \in 1..Len(str) : str[i] \in Range(Digits)

RECURSIVE IntOf(_)
IntOf(str) ==
  IF str = <<>> THEN 0
  ELSE 10 * IntOf(SubSeq(str, 1, Len(str) - 1)) + DigitValue(str[Len(str)])

\* str.lower() on a word
Lower(w) ==
  CASE w = "Deep" -> "deep"
    [] w = "Learning" -> "learning"
    [] w = "NLP" -> "nlp"
    [] w = "Graph" -> "graph"
    [] w = "Theory" -> "theory"
    [] w = "Unknown" -> "unknown"
    [] w = "Title" -> "title"
    [] OTHER -> w

\* title.lower()
LowerTitle(title) == [i \in 1..Len(title) |-> Lower(title[i])]

TitleA == <<"Deep", "Learning", "for", "NLP">>
TitleB == <<"deep", "learning", "for", "nlp", "models">>
TitleC == <<"deep", "learning", "for", "nlp">>
TitleD == <<"Deep", "Learning", "for", "NLP", "models", "today">>
TitleE == <<"Graph", "Theory">>
TitleF == <<"Deep", "Learning", "for", "NLP", "models", "today", "explained">>
UnknownTitle == <<"Unknown", "Title">>

Get(d, key, default) == IF key \in DOMAIN d THEN d[key] ELSE default

\* what the three services can hold for the query
ArxivPool ==
  {[title |-> TitleA, published |-> Chars("2021-03-01")],
   [title |-> TitleD, published |-> Chars("2019-05-20")],
   [title |-> TitleF, published |-> Chars("2019-05-20")],
   [title |-> TitleE, published |-> Chars("2021-03-01")]}

\* Semantic Scholar sends every requested field, null when it has no value
SemanticPool ==
  {[title |-> TitleB, year |-> <<2020>>, citationCount |-> 5],
   [title |-> TitleC, year |-> <<2021>>, citationCount |-> 5],
   [title |-> TitleE, year |-> <<>>, citationCount |-> 0],
   [year |-> <<2020>>]}

\* scholarly keeps title and year under 'bib', not at the top level
ScholarPool ==
  {[bib |-> "bib", num_citations |-> 7], [bib |-> "bib"]}

SeqsUpTo(S, n) == UNION {[1..k -> S] : k \in 0..n}

\* search_arxiv: the papers of the results, none when the request raises
search_arxiv(answer, limit) ==
  IF answer.error THEN <<>>
  ELSE [i \in 1..Min(limit, Len(answer.items)) |->
          [title |-> answer.items[i].title,
           published |-> answer.items[i].published,
           source |-> "ArXiv"]]

\* search_semantic_scholar: requests.get raises, or the status is not 200,
\* or the body is parsed
search_semantic_scholar(answer, limit) ==
  IF answer.kind # "ok" THEN <<>>
  ELSE [i \in 1..Min(limit, Len(answer.items)) |->
          [title |-> Get(answer.items[i], "title", UnknownTitle),
           published |->
             IF "year" \in DOMAIN answer.items[i]
             THEN PyStr(answer.items[i].year) ELSE Chars("Unknown"),
           source |-> "Semantic Scholar",
           citations |-> Get(answer.items[i], "citationCount", 0)]]

\* search_google_scholar
search_google_scholar(answer, limit) ==
  IF answer.error THEN <<>>
  ELSE [i \in 1..Min(limit, Len(answer.items)) |->
          [title |-> Get(answer.items[i], "title", UnknownTitle),
           published |->
             IF "year" \in DOMAIN answer.items[i]
             THEN PyStr(answer.items[i].year) ELSE Chars("Unknown"),
           source |-> "Google Scholar",
           citations |-> Get(answer.items[i], "num_citations", 0)]]

\* _similarity_score: |intersection| / |union| of the word sets as the
\* fraction <<numerator, denominator>>, 0.0 when a title has no word
similarity_score(str1, str2) ==
  LET words1 == Range(str1)
      words2 == Range(str2)
  IN IF words1 = {} \/ words2 = {} THEN <<0, 1>>
     ELSE <<Cardinality(words1 \cap words2), Cardinality(words1 \cup words2)>>

\* line 146 with >= for >
ExceedsThresholdInclusive(score) == 10 * score[1] >= 8 * score[2]

\* line 146: score > 0.8.  n/d and the literal 0.8 round to the same double
\* exactly when n/d = 4/5, so the comparison is the one of the fractions.
ExceedsThreshold(score) == 10 * score[1] > 8 * score[2]

\* lines 144-147 with the title of every earlier paper remembered, the
\* dropped ones included
is_duplicate_of_any(all_papers, i, kept) ==
  \E k \in 1..(i - 1) :
    ExceedsThreshold(
      similarity_score(LowerTitle(all_papers[i].title),
                       LowerTitle(all_papers[k].title)))

\* lines 142-147: paper i against seen_titles, the titles of the kept papers
is_duplicate(all_papers, i, kept) ==
  LET title_lower == LowerTitle(all_papers[i].title)
  IN \E k \in 1..Len(kept) :
       ExceedsThreshold(
         similarity_score(title_lower, LowerTitle(all_papers[kept[k]].title)))

\* lines 139-152: the positions of all_papers that are kept, from paper i
\* on, given the positions kept so far
RECURSIVE KeptFrom(_, _, _)
KeptFrom(all_papers, i, kept) ==
  IF i > Len(all_papers) THEN kept
  ELSE KeptFrom(all_papers, i + 1,
                IF is_duplicate(all_papers, i, kept) THEN kept
                ELSE Append(kept, i))

\* lines 155-158: the sort key; int() raises on a year that is not a number
KeyRaises(paper) ==
  /\ paper.published # Chars("Unknown")
  /\ ~IsIntLiteral(FirstDashField(paper.published))

RankKey(paper) ==
  <<Get(paper, "citations", 0),
    IF paper.published # Chars("Unknown")
    THEN IntOf(FirstDashField(paper.published)) ELSE 0>>

KeyAtLeast(a, b) == a[1] > b[1] \/ (a[1] = b[1] /\ a[2] >= b[2])

\* r placed behind every entry whose key is >= its own
RECURSIVE InsertByRank(_, _)
InsertByRank(sorted, r) ==
  IF sorted = <<>> THEN <<r>>
  ELSE IF KeyAtLeast(RankKey(Head(sorted)), RankKey(r))
       THEN <<Head(sorted)>> \o InsertByRank(Tail(sorted), r)
       ELSE <<r>> \o sorted

\* list.sort(key=..., reverse=True): stable, descending
RECURSIVE SortedByRank(_)
SortedByRank(ps) ==
  IF ps = <<>> THEN <<>>
  ELSE InsertByRank(SortedByRank(SubSeq(ps, 1, Len(ps) - 1)), ps[Len(ps)])

\* lines 138-160 on the concatenated results
MergePapers(all_papers, max_results) ==
  LET kept == KeptFrom(all_papers, 1, <<>>)
      unique_papers == [k \in 1..Len(kept) |-> all_papers[kept[k]]]
  IN IF \E k \in 1..Len(unique_papers) : KeyRaises(unique_papers[k])
     THEN [outcome |-> "raised", kept |-> kept]
     ELSE [outcome |-> "returned", kept |-> kept,
           results |-> Take(SortedByRank(unique_papers), max_results)]

\* PaperSearcher.search_papers
search_papers(max_results, arxiv, semantic, scholar) ==
  LET all_papers ==
        search_arxiv(arxiv, max_results \div 3)
          \o search_semantic_scholar(semantic, max_results \div 3)
          \o search_google_scholar(scholar, max_results \div 3)
  IN MergePapers(all_papers, max_results) @@
       [op |-> "search_papers", max_results |-> max_results,
        arxiv |-> arxiv, semantic |-> semantic, scholar |-> scholar,
        all_papers |-> all_papers]

(***************************************************************************)
(* Specification of the literature search: one search_papers call at a     *)
(* time, the three services answering or failing in every combination.     *)
(* With at most two results asked of a service, a failing request fails    *)
(* before its first result.                                                *)
(***************************************************************************)
ArxivAnswers(limit) ==
  {[error |-> TRUE, items |-> <<>>]}
    \cup {[error |-> FALSE, items |-> sq] : sq \in SeqsUpTo(ArxivPool, limit)}

SemanticAnswers(limit) ==
  {[kind |-> k, items |-> <<>>] : k \in {"exception", "rate_limited"}}
    \cup {[kind |-> "ok", items |-> sq] : sq \in SeqsUpTo(SemanticPool, limit)}

ScholarAnswers(limit) ==
  {[error |-> TRUE, items |-> <<>>]}
    \cup {[error |-> FALSE, items |-> sq] : sq \in SeqsUpTo(ScholarPool, limit)}

InitPapers == IdleChunk /\ IdleSystem

SearchPapers ==
  /\ call.op = "idle"
  /\ \E max_results \in 3..MaxPaperResults :
       \E arxiv \in ArxivAnswers(max_results \div 3),
          semantic \in SemanticAnswers(max_results \div 3),
          scholar \in ScholarAnswers(max_results \div 3) :
         call' = search_papers(max_results, arxiv, semantic, scholar)
  /\ UNCHANGED <<store, llm, session, chunkVars>>

NextPapers == SearchPapers \/ Return

SpecPapers == InitPapers /\ [][NextPapers]_vars

(***************************************************************************)
(* Properties of search_papers                                             *)
(***************************************************************************)
PapersMerged == call.op = "search_papers"

\* the lowercase words of the title of candidate i
TitleWords(i) == {Lower(w) : w \in Range(call.all_papers[i].title)}

Shared(i, j) == Cardinality(TitleWords(i) \cap TitleWords(j))
United(i, j) == Cardinality(TitleWords(i) \cup TitleWords(j))

\* Jaccard similarity of candidates i and j compared with 0.8 = 4/5
JaccardAbove(i, j) == 5 * Shared(i, j) > 4 * United(i, j)
JaccardAtLeast(i, j) == 5 * Shared(i, j) >= 4 * United(i, j)

Survives(i) == i \in Range(call.kept)

\* C7 as claimed: of two merged papers whose title similarity is >= 0.8
\* (exactly 0.8 included) only one survives, and both survive when it
\* is < 0.8.
C7_DedupAtThreshold ==
  (PapersMerged /\ Len(call.all_papers) = 2)
    => /\ JaccardAtLeast(1, 2) => (Survives(1) /\ ~Survives(2))
       /\ ~JaccardAtLeast(1, 2) => (Survives(1) /\ Survives(2))

\* C7 amended: two papers whose similarity is strictly above 0.8 never both
\* survive, a paper is dropped only for a similarity above 0.8 to an earlier
\* kept paper, and of two papers merged alone the second is dropped exactly
\* when the similarity is above 0.8: at exactly 0.8 both survive.
C7_DedupAboveThreshold ==
  PapersMerged =>
    /\ \A i, j \in 1..Len(call.all_papers) :
         (i < j /\ JaccardAbove(i, j)) => ~(Survives(i) /\ Survives(j))
    /\ \A j \in 1..Len(call.all_papers) :
         ~Survives(j)
           => \E i \in 1..(j - 1) : Survives(i) /\ JaccardAbove(i, j)
    /\ Len(call.all_papers) = 2
         => /\ Survives(1)
            /\ Survives(2) <=> ~JaccardAbove(1, 2)

C7_Witness ==
  /\ PapersMerged
  /\ Len(call.all_papers) = 2
  /\ 5 * Shared(1, 2) = 4 * United(1, 2)
  /\ call.kept = <<1, 2>>

\* the lowercase words of the title of the k-th returned paper
ResultWords(k) == {Lower(w) : w \in Range(call.results[k].title)}

\* C17: in the list search_papers returns, no two distinct papers have
\* titles whose similarity (shared words over all words of the lowercase
\* titles, 0 for a title without words) is above 0.8; a candidate is kept
\* exactly when no earlier kept candidate is that similar to it, so a
\* dropped candidate never makes a later one drop.
C17_NoSimilarPairReturned ==
  (PapersMerged /\ call.outcome = "returned")
    => /\ \A i, j \in 1..Len(call.results) :
            (i # j /\ ResultWords(i) # {} /\ ResultWords(j) # {})
              => 5 * Cardinality(ResultWords(i) \cap ResultWords(j))
                   <= 4 * Cardinality(ResultWords(i) \cup ResultWords(j))
       /\ \A j \in 1..Len(call.all_papers) :
            Survives(j)
              <=> ~\E i \in 1..(j - 1) : Survives(i) /\ JaccardAbove(i, j)
       /\ \A k \in 1..Len(call.results) :
            \E i \in 1..Len(call.all_papers) :
              Survives(i) /\ call.all_papers[i] = call.results[k]

C17_Witness ==
  /\ PapersMerged
  /\ call.outcome = "returned"
  /\ Len(call.results) >= 2
  /\ \E i, j, k \in 1..Len(call.all_papers) :
       /\ i < j /\ j < k
       /\ Survives(i) /\ ~Survives(j) /\ Survives(k)
       /\ JaccardAbove(i, j) /\ JaccardAbove(j, k)
       /\ call.all_papers[k] \in Range(call.results)

\* the sources whose request failed in the call
FailedSources ==
  (IF call.arxiv.error THEN {"ArXiv"} ELSE {})
    \cup (IF call.semantic.kind # "ok" THEN {"Semantic Scholar"} ELSE {})
    \cup (IF call.scholar.error THEN {"Google Scholar"} ELSE {})

\* C8: when one of the three sources fails, search_papers still returns, and
\* what it returns is the deduplicated, ranked merge of the other two
\* sources' results, nothing coming from the failed source.
C8_OneSourceFailureIsolated ==
  (PapersMerged /\ Cardinality(FailedSources) = 1)
    => /\ call.outcome = "returned"
       /\ \A k \in 1..Len(call.results) :
            call.results[k].source \notin FailedSources
       /\ Len(call.results) = Min(call.max_results, Len(call.kept))
       /\ \A k \in 1..Len(call.kept) :
            call.all_papers[call.kept[k]] \in Range(call.results)

\* the values a returned paper is ranked by: an absent citation count and
\* a year that is unknown (no number) count as 0
CitationsOrZero(paper) == Get(paper, "citations", 0)
YearOrZero(paper) ==
  IF IsIntLiteral(FirstDashField(paper.published))
  THEN IntOf(FirstDashField(paper.published)) ELSE 0

\* C15: whatever the sources return, papers without a citation count or
\* with an unknown year included, search_papers returns at most max_results
\* papers, by citation count descending and, among equal counts, by year
\* descending, absent and unknown values counting as 0.
C15_RankedAndCapped ==
  PapersMerged =>
    /\ call.outcome = "returned"
    /\ Len(call.results) <= call.max_results
    /\ \A i, j \in 1..Len(call.results) :
         i < j =>
           \/ CitationsOrZero(call.results[i]) > CitationsOrZero(call.results[j])
           \/ /\ CitationsOrZero(call.results[i])
                   = CitationsOrZero(call.results[j])
              /\ YearOrZero(call.results[i]) >= YearOrZero(call.results[j])

(***************************************************************************)
(* Specification of PDF reading: one extract_text_from_pdf call at a time  *)
(* on a file that does not open or has up to MaxPages pages, each page     *)
(* yielding its text or raising.                                           *)
(***************************************************************************)
PagePool ==
  {[ok |-> FALSE, text |-> <<>>],
   [ok |-> TRUE, text |-> <<"a", ".">>],
   [ok |-> TRUE, text |-> <<"b">>]}

PdfFiles ==
  {[opens |-> FALSE, pages |-> <<>>]}
    \cup {[opens |-> TRUE, pages |-> ps] : ps \in SeqsUpTo(PagePool, MaxPages)}

InitPdf == IdleChunk /\ IdleSystem

ExtractText ==
  /\ call.op = "idle"
  /\ \E file \in PdfFiles :
       call' = [op |-> "extract_text_from_pdf", file |-> file,
                outcome |-> "returned", result |-> TextOfFile(file)]
  /\ UNCHANGED <<store, llm, session, chunkVars>>

NextPdf == ExtractText \/ Return

SpecPdf == InitPdf /\ [][NextPdf]_vars

\* C13: extract_text_from_pdf never raises, and whenever a read error
\* occurs while the file or one of its pages is read, it returns the empty
\* string, never the text of the pages read before the error.
C13_ReadErrorGivesEmpty ==
  call.op = "extract_text_from_pdf"
    => /\ call.outcome = "returned"
       /\ ReadError(call.file) => call.result = <<>>

(***************************************************************************)
(* PaperSearcher.extract_key_terms                                         *)
(***************************************************************************)
UpperLetters ==
  <<"A", "B", "C", "D", "E", "F", "G", "H", "I", "J", "K", "L", "M",
    "N", "O", "P", "Q", "R", "S", "T", "U", "V", "W", "X", "Y", "Z">>
LowerLetters ==
  <<"a", "b", "c", "d", "e", "f", "g", "h", "i", "j", "k", "l", "m",
    "n", "o", "p", "q", "r", "s", "t", "u", "v", "w", "x", "y", "z">>

\* str.lower() on a character and on a text
LowerChar(c) ==
  IF c \in Range(UpperLetters)
  THEN LowerLetters[CHOOSE i \in 1..26 : UpperLetters[i] = c]
  ELSE c

LowerText(t) == [i \in 1..Len(t) |-> LowerChar(t[i])]

\* [a-zA-Z] and \w of the pattern
Letters == Range(UpperLetters) \cup Range(LowerLetters)
WordChars == Letters \cup Range(Digits) \cup {"_"}
IsLetter(c) == c \in Letters
IsWordChar(c) == c \in WordChars

\* re.findall(r'\b[a-zA-Z]+\b', t): \b holds only where a \w character
\* meets a non-\w one or the end of the text, so the matches are the
\* maximal runs of \w characters that consist of letters, from left to right
WordStarts(t) ==
  {i \in 1..Len(t) : IsWordChar(t[i]) /\ (i = 1 \/ ~IsWordChar(t[i - 1]))}

RunEnd(t, i) ==
  CHOOSE j \in i..Len(t) :
    /\ \A k \in i..j : IsWordChar(t[k])
    /\ j = Len(t) \/ ~IsWordChar(t[j + 1])

RECURSIVE WordsFrom(_, _)
WordsFrom(t, i) ==
  LET later == {s \in WordStarts(t) : s >= i}
      s == MinOf(later)
      e == RunEnd(t, s)
  IN IF later = {} THEN <<>>
     ELSE (IF \A k \in s..e : IsLetter(t[k]) THEN <<SubSeq(t, s, e)>>
           ELSE <<>>) \o WordsFrom(t, e + 1)

FindWords(t) == WordsFrom(t, 1)

\* line 15
stop_words ==
  {<<"t", "h", "e">>, <<"a">>, <<"a", "n">>, <<"a", "n", "d">>,
   <<"o", "r">>, <<"b", "u", "t">>, <<"i", "n">>, <<"o", "n">>,
   <<"a", "t">>, <<"t", "o">>, <<"f", "o", "r">>, <<"o", "f">>,
   <<"w", "i", "t", "h">>, <<"b", "y">>, <<"t", "h", "i", "s">>,
   <<"t", "h", "a", "t">>, <<"t", "h", "e", "s", "e">>,
   <<"t", "h", "o", "s", "e">>, <<"i", "s">>, <<"a", "r", "e">>,
   <<"w", "a", "s">>, <<"w", "e", "r", "e">>, <<"b", "e">>,
   <<"b", "e", "e", "n">>, <<"b", "e", "i", "n", "g">>,
   <<"h", "a", "v", "e">>, <<"h", "a", "s">>, <<"h", "a", "d">>,
   <<"d", "o">>, <<"d", "o", "e", "s">>, <<"d", "i", "d">>,
   <<"w", "i", "l", "l">>, <<"w", "o", "u", "l", "d">>,
   <<"c", "o", "u", "l", "d">>, <<"s", "h", "o", "u", "l", "d">>,
   <<"m", "a", "y">>, <<"m", "i", "g", "h", "t">>, <<"m", "u", "s", "t">>,
   <<"c", "a", "n">>, <<"c", "a", "n", "n", "o", "t">>,
   <<"u", "s", "i", "n", "g">>, <<"b", "a", "s", "e", "d">>,
   <<"a", "p", "p", "r", "o", "a", "c", "h">>,
   <<"m", "e", "t", "h", "o", "d">>, <<"p", "a", "p", "e", "r">>,
   <<"s", "t", "u", "d", "y">>, <<"r", "e", "s", "e", "a", "r", "c", "h">>,
   <<"a", "n", "a", "l", "y", "s", "i", "s">>,
   <<"a", "p", "p", "l", "i", "c", "a", "t", "i", "o", "n">>,
   <<"s", "y", "s", "t", "e", "m">>, <<"m", "o", "d", "e", "l">>,
   <<"f", "r", "a", "m", "e", "w", "o", "r", "k">>,
   <<"a", "l", "g", "o", "r", "i", "t", "h", "m">>,
   <<"t", "e", "c", "h", "n", "i", "q", "u", "e">>}

\* line 21 without the stop-word test
IsKeyTermAnyWord(word) == Len(word) > 3

\* line 21: the filter of the comprehension
IsKeyTerm(word) == word \notin stop_words /\ Len(word) > 3

\* w placed behind every entry that is at least as long
RECURSIVE InsertByLen(_, _)
InsertByLen(sorted, w) ==
  IF sorted = <<>> THEN <<w>>
  ELSE IF Len(Head(sorted)) >= Len(w)
       THEN <<Head(sorted)>> \o InsertByLen(Tail(sorted), w)
       ELSE <<w>> \o sorted

\* sorted(key_terms, key=len, reverse=True): stable, longest first
RECURSIVE SortedByLen(_)
SortedByLen(ws) ==
  IF ws = <<>> THEN <<>>
  ELSE InsertByLen(SortedByLen(SubSeq(ws, 1, Len(ws) - 1)), ws[Len(ws)])

\* list(dict.fromkeys(ws)): the first occurrence of every entry, in order
FromKeys(ws) ==
  LET firsts == {i \in 1..Len(ws) : \A j \in 1..(i - 1) : ws[j] # ws[i]}
      nth(k) == CHOOSE i \in firsts :
                  Cardinality({o \in firsts : o < i}) = k - 1
  IN [k \in 1..Cardinality(firsts) |-> ws[nth(k)]]

extract_key_terms(t) ==
  LET words == FindWords(LowerText(t))
      key_terms == SelectSeq(words, IsKeyTerm)
  IN FromKeys(SortedByLen(key_terms))

(***************************************************************************)
(* Specification of key-term extraction: one extract_key_terms call at a   *)
(* time on a text of up to MaxTokens tokens separated by single blanks.    *)
(* The tokens hold a capitalised stop word, words of the same and of       *)
(* different lengths, a three-letter word, and a token in which            *)
(* punctuation ends a word and a digit spoils another.                     *)
(***************************************************************************)
TokenPool ==
  {<<"B", "e", "e", "n">>, <<"b", "e", "n", "e">>, <<"e", "b", "e", "n">>,
   <<"n", "e", "b", "e", "b">>, <<"b", "e", "n">>,
   <<"e", "b", "e", "n", "-", "b", "1">>}

RECURSIVE JoinBlank(_)
JoinBlank(tokens) ==
  IF tokens = <<>> THEN <<>>
  ELSE IF Len(tokens) = 1 THEN tokens[1]
  ELSE tokens[1] \o <<" ">> \o JoinBlank(Tail(tokens))

TermTexts == {JoinBlank(tokens) : tokens \in SeqsUpTo(TokenPool, MaxTokens)}

InitTerms == IdleChunk /\ IdleSystem

ExtractKeyTerms ==
  /\ call.op = "idle"
  /\ \E t \in TermTexts :
       call' = [op |-> "extract_key_terms", text |-> t,
                result |-> extract_key_terms(t)]
  /\ UNCHANGED <<store, llm, session, chunkVars>>

NextTerms == ExtractKeyTerms \/ Return

SpecTerms == InitTerms /\ [][NextTerms]_vars

\* the lowercase alphabetic words of the text of the call, in text order
TextWords == FindWords(LowerText(call.text))

\* C14: the list extract_key_terms returns holds no stop word, no word of
\* length <= 3 and no duplicate; it holds every other lowercase alphabetic
\* word of the text (and nothing else); the lengths of its terms never
\* increase, and terms of equal length stand in the order of their first
\* occurrence in the text.
C14_KeyTerms ==
  call.op = "extract_key_terms" =>
    LET r == call.result
        ws == TextWords
        first(w) == MinOf({k \in 1..Len(ws) : ws[k] = w})
    IN /\ \A i \in 1..Len(r) : r[i] \notin stop_words /\ Len(r[i]) > 3
       /\ \A i, j \in 1..Len(r) : i # j => r[i] # r[j]
       /\ \A k \in 1..Len(ws) :
            (ws[k] \notin stop_words /\ Len(ws[k]) > 3) => ws[k] \in Range(r)
       /\ Range(r) \subseteq Range(ws)
       /\ \A i, j \in 1..Len(r) :
            i < j
              => /\ Len(r[i]) >= Len(r[j])
                 /\ Len(r[i]) = Len(r[j]) => first(r[i]) < first(r[j])

C14_Witness ==
  /\ call.op = "extract_key_terms"
  /\ Len(call.result) >= 3
  /\ call.text # LowerText(call.text)
  /\ LET r == call.result
         ws == TextWords
         first(w) == MinOf({k \in 1..Len(ws) : ws[k] = w})
     IN /\ \E k \in 1..Len(ws) : ws[k] \in stop_words
        /\ \E i, j \in 1..Len(r) :
             /\ i < j
             /\ Len(r[i]) = Len(r[j])
             /\ Cardinality({k \in 1..Len(ws) : ws[k] = r[i]}) > 1
        /\ \E i, j \in 1..Len(r) :
             /\ i < j
             /\ Len(r[i]) > Len(r[j])
             /\ first(r[i]) > first(r[j])

(***************************************************************************)
(* Specification of the UI session (main.py): the agent is built from the  *)
(* sidebar with a model of the provider's catalog and a key; the user      *)
(* analyzes papers and asks questions, one click at a time.                *)
(***************************************************************************)
\* setup_sidebar: the preselected model of each provider
UIConfigs ==
  {[provider |-> "together", model |-> "deepseek-ai/DeepSeek-V3",
    has_key |-> TRUE],
   [provider |-> "groq", model |-> "llama-3.1-8b-instant", has_key |-> TRUE]}

InitUI ==
  /\ IdleChunk
  /\ store = <<>>
  /\ llm \in UIConfigs
  /\ call = [op |-> "idle"]
  /\ session = NoSession

\* lines 211-221: the session after the Analyze button, given the record
\* of the analyze_paper call; results.get('collection_name') is None for a
\* result without that key
SessionAfterAnalysis(sess, c) ==
  IF c.outcome = "raised" THEN sess
  ELSE [analysis_results |-> <<c.result>>,
        collection_name |-> Get(c.result, "collection_name", NoName)]

ClickAnalyze ==
  /\ call.op = "idle"
  /\ \E path \in PdfPool, name \in NamePool, createFails \in BOOLEAN :
       \E addFailAt \in 0..Len(DocumentChunks[path]) :
         \E failing \in LLMFailureSets, resp \in CitationResponses,
            searchFails \in BOOLEAN :
           /\ store_document(store, path, name, createFails,
                             addFailAt).raised
                => (failing = {} /\ resp = "json" /\ ~searchFails)
           /\ LET r == analyze_paper(store, llm, path,
                                     [name |-> name,
                                      createFails |-> createFails,
                                      addFailAt |-> addFailAt,
                                      failing |-> failing,
                                      resp |-> resp,
                                      searchFails |-> searchFails])
              IN /\ store' = r.store
                 /\ call' = r.call
                 /\ session' = SessionAfterAnalysis(session, r.call)
  /\ UNCHANGED <<llm, chunkVars>>

\* lines 238-258: the question box is shown when analysis_results is
\* truthy (any non-empty dict); the answer or the exception is displayed
ClickAsk ==
  /\ call.op = "idle"
  /\ session.analysis_results # <<>>
  /\ \E status \in {200, 429} :
       LET cname == session.collection_name
       IN IF cname # NoName /\ cname \notin Collections
          THEN call' = query_paper(store, llm, cname, <<>>, <<>>, 200)
          ELSE \E order \in Orderings(SearchTargets(store, cname)) :
                 \E outcomes \in
                      [SearchTargets(store, cname) -> QueryOutcomes] :
                   /\ search_documents(store, cname, 5, order,
                                       outcomes).results = <<>>
                        => status = 200
                   /\ call' = query_paper(store, llm, cname, order,
                                          outcomes, status)
  /\ UNCHANGED <<store, llm, session, chunkVars>>

NextUI == ClickAnalyze \/ ClickAsk \/ Return

SpecUI == InitUI /\ [][NextUI]_vars

\* C20: in the UI session every question is answered by retrieving only
\* from the collection created by the analysis the session holds: the
\* analysis held has a collection, query_paper is given its name, and no
\* other collection is queried, also after an analysis that ended in the
\* error result.
C20_AskScopedToHeldAnalysis ==
  call.op = "query_paper" =>
    /\ session.analysis_results # <<>>
    /\ "collection_name" \in DOMAIN session.analysis_results[1]
    /\ call.collection_name = session.analysis_results[1].collection_name
    /\ call.search.outcome = "returned"
         => Range(call.search.queried) \subseteq {call.collection_name}

====
